---- MODULE Spec2Model ----
(***************************************************************************)
(* Brown-Ham precipitate "cutting" dislocation model: the driver `main`    *)
(* (src/src/main.c), the argument handling and input loading               *)
(* (src/unnamed/part_000, lines 119-533: utilities.c) and the reference    *)
(* variant (src/unnamed/part_000, lines 1-117).                            *)
(*                                                                         *)
(* Values.  A C `double` is modelled by a natural number in a unit chosen  *)
(* per quantity (see the kDemoSpecificConstant definitions), held with     *)
(* DoublePrecision significant bits: RoundToDouble rounds to nearest,      *)
(* ties to even, as IEEE-754 arithmetic does with 53 bits.                 *)
(*                                                                         *)
(* Indeterminate values.  A local of `main` that has no initialiser is in  *)
(* the set `uninit` until it is assigned; reading it yields any value of   *)
(* IndeterminateValues.                                                    *)
(***************************************************************************)
EXTENDS Integers, Sequences, FiniteSets, TLC

(***************************************************************************)
(* Bounds of the model.                                                    *)
(***************************************************************************)
\* Largest argument of -M, --multiple-executions that is explored.
MaxIterations == 3
\* Number of parameter options (-g -p -R -G -B -m) one command line supplies.
MaxSuppliedOptions == 1
\* Largest first reading of clock(), and largest number of ticks between its
\* two readings.
MaxClockTicks == 1
\* Significant bits of the modelled double.
DoublePrecision == 3

(***************************************************************************)
(* Program constants (src/src/utilities.h:31-44), in model units:          *)
(* gamma in 0.05 J/m^2, phi in 0.15, Rs in 1E-9 m, G in 1E10 Pa,           *)
(* b in 2.54E-10 m, M in 1E-5.                                             *)
(***************************************************************************)
kDemoSpecificConstantGammaUniformMin == 3
kDemoSpecificConstantGammaUniformMax == 5
kDemoSpecificConstantPhiUniformMin == 2
kDemoSpecificConstantPhiUniformMax == 3
kDemoSpecificConstantRsMixtureFirstGaussianMean == 10
kDemoSpecificConstantRsMixtureFirstGaussianStandardDeviation == 2
kDemoSpecificConstantRsMixtureSecondGaussianMean == 30
kDemoSpecificConstantRsMixtureSecondGaussianStandardDeviation == 2
\* the weight 0.5, in halves
kDemoSpecificConstantRsMixtureFirstGaussianWeight == 1
kDemoSpecificConstantGUniformMin == 6
kDemoSpecificConstantGUniformMax == 8
kDemoSpecificConstantB == 1
kDemoSpecificConstantMUniformMin == 190000
kDemoSpecificConstantMUniformMax == 410000

\* InputDistributionIndex (src/src/utilities.h:46-55)
kInputDistributionIndexB == 0
kInputDistributionIndexG == 1
kInputDistributionIndexGamma == 2
kInputDistributionIndexM == 3
kInputDistributionIndexPhi == 4
kInputDistributionIndexRs == 5
kInputDistributionIndexMax == 6

\* The divisor of the kernel's Pa -> MPa conversion, and of seconds -> microseconds.
kPascalsPerMegapascal == 1000000
kMicrosecondsPerSecond == 1000000
\* clock() ticks per second.
kClocksPerSec == 1000000
\* M_PI, to the unit.
kPi == 3

(***************************************************************************)
(* double arithmetic                                                       *)
(***************************************************************************)
RECURSIVE Pow2(_)
Pow2(n) == IF n = 0 THEN 1 ELSE 2 * Pow2(n - 1)

\* The spacing of the representable values around n >= 0.
RECURSIVE Ulp(_)
Ulp(n) == IF n < Pow2(DoublePrecision) THEN 1 ELSE 2 * Ulp(n \div 2)

\* num/den (den > 0, num >= 0) rounded to the nearest multiple of q, ties to
\* the even multiple.
RoundRatio(num, den, q) ==
    LET d    == den * q
        base == num \div d
        r2   == 2 * (num % d)
    IN  IF r2 < d THEN base * q
        ELSE IF r2 > d THEN (base + 1) * q
        ELSE IF base % 2 = 0 THEN base * q ELSE (base + 1) * q

\* num/den (num >= 0) rounded to a representable double.
RoundMagnitude(num, den) ==
    LET q0 == Ulp(num \div den)
        v0 == RoundRatio(num, den, q0)
    IN  IF Ulp(v0) = q0 THEN v0 ELSE RoundRatio(num, den, Ulp(v0))

\* num/den (den > 0) rounded to a representable double.  The numerator is
\* evaluated once, as the argument of a function.
RoundToDouble(num, den) ==
    LET Rounded[n \in Int] ==
            IF n < 0 THEN 0 - RoundMagnitude(0 - n, den) ELSE RoundMagnitude(n, den)
    IN  Rounded[num]

\* sqrt(): the largest r with r * r <= n.
RECURSIVE SqrtFrom(_, _)
SqrtFrom(n, r) == IF (r + 1) * (r + 1) > n THEN r ELSE SqrtFrom(n, r + 1)

sqrt(n) ==
    LET Root[m \in Nat] == SqrtFrom(m, 0)
    IN  Root[n]

(***************************************************************************)
(* The native distribution back end (uxhw.c): every UxHwDouble*Dist call   *)
(* draws one sample from the generator and advances it.                    *)
(***************************************************************************)
\* The states the generator may be in when main starts: nothing under src/
\* seeds it, so every run starts it in the same state.
Seeds == {1}

NextRng(r) == (5 * r + 3) % 16

UxHwDoubleUniformDist(lo, hi, r) ==
    RoundToDouble(lo + ((hi - lo) * (r % 2)) \div 2, 1)

UxHwDoubleGaussDist(mean, sd, r) ==
    RoundToDouble(mean + sd * ((r % 3) - 1), 1)

\* weight in halves: the first component with probability weight/2
UxHwDoubleMixture(first, second, weight, r) ==
    IF (r \div 2) % 2 < weight THEN first ELSE second

\* A mutation of computeBrownHamModelOutput: the volume fraction is not
\* subtracted.
BrownHamModelOutputWithoutPhiTerm(gamma, phi, Rs, G, b, M) ==
    RoundToDouble(((M * gamma) \div (2 * b))
                    * sqrt((8 * gamma * phi * Rs) \div (kPi * G * b * b)),
                  kPascalsPerMegapascal)

(***************************************************************************)
(* The kernel (src/src/main.c:42-58)                                       *)
(***************************************************************************)
computeBrownHamModelOutput(gamma, phi, Rs, G, b, M) ==
    RoundToDouble(
        ((M * gamma) \div (2 * b))
            * (sqrt((8 * gamma * phi * Rs) \div (kPi * G * b * b)) - phi),
        kPascalsPerMegapascal)

(***************************************************************************)
(* Run statistics (common.c): the mean and the variance of the first n     *)
(* samples, each partial sum stored in a double.                           *)
(***************************************************************************)
RECURSIVE SumOfDoubleSamples(_, _)
SumOfDoubleSamples(samples, n) ==
    IF n = 0 THEN 0
    ELSE RoundToDouble(SumOfDoubleSamples(samples, n - 1) + samples[n], 1)

RECURSIVE SumOfSquaredDeviations(_, _, _)
SumOfSquaredDeviations(samples, n, mean) ==
    IF n = 0 THEN 0
    ELSE RoundToDouble(SumOfSquaredDeviations(samples, n - 1, mean)
                         + (samples[n] - mean) * (samples[n] - mean), 1)

calculateMeanAndVarianceOfDoubleSamples(samples, n) ==
    LET mean == RoundToDouble(SumOfDoubleSamples(samples, n), n)
        Variance[m \in Int] == RoundToDouble(SumOfSquaredDeviations(samples, n, m), n)
    IN  [mean     |-> mean,
         variance |-> Variance[mean]]

(***************************************************************************)
(* Command line                                                            *)
(***************************************************************************)
kCommonConstantReturnTypeSuccess == "kCommonConstantReturnTypeSuccess"
kCommonConstantReturnTypeError == "kCommonConstantReturnTypeError"

\* The six parameter options, in the order getCommandLineArguments examines
\* them (src/unnamed/part_000:292-452).
ParameterOptions == <<"gamma", "phi", "Rs", "G", "b", "M">>

\* CommonCommandLineArguments after `(CommonCommandLineArguments) {0}`.
ZeroCommonCommandLineArguments ==
    [isHelpEnabled                |-> FALSE,
     isOutputSelected             |-> FALSE,
     isInputFromFileEnabled       |-> FALSE,
     isWriteToFileEnabled         |-> FALSE,
     isMonteCarloMode             |-> FALSE,
     numberOfMonteCarloIterations |-> 0,
     isTimingEnabled              |-> FALSE,
     isVerbose                    |-> FALSE,
     isBenchmarkingMode           |-> FALSE,
     isOutputJSONMode             |-> FALSE]

\* The argument of -M, --multiple-executions: <<>> when the option is absent.
MultipleExecutionsOptions == {<<>>} \cup {<<n>> : n \in 0 .. MaxIterations}

\* The common part of a command line: whether getopt accepts it, and the
\* common options it holds.
CommandLines ==
    [wellFormed : BOOLEAN, help : BOOLEAN, select : BOOLEAN, input : BOOLEAN,
     output : BOOLEAN, time : BOOLEAN, verbose : BOOLEAN, benchmarking : BOOLEAN,
     json : BOOLEAN, multipleExecutions : MultipleExecutionsOptions]

\* parseArgs (common.c): fills the common arguments; the number of executions
\* is 1 unless -M is given, and an execution count below 1 is an error.
parseArgs(cl, common) ==
    IF ~cl.wellFormed
       \/ (cl.multipleExecutions # <<>> /\ cl.multipleExecutions[1] < 1)
    THEN [ret |-> kCommonConstantReturnTypeError, common |-> common]
    ELSE [ret    |-> kCommonConstantReturnTypeSuccess,
          common |->
            [isHelpEnabled                |-> cl.help,
             isOutputSelected             |-> cl.select,
             isInputFromFileEnabled       |-> cl.input,
             isWriteToFileEnabled         |-> cl.output,
             isMonteCarloMode             |-> cl.multipleExecutions # <<>>,
             numberOfMonteCarloIterations |->
                 IF cl.multipleExecutions = <<>> THEN 1 ELSE cl.multipleExecutions[1],
             isTimingEnabled              |-> cl.time,
             isVerbose                    |-> cl.verbose,
             isBenchmarkingMode           |-> cl.benchmarking,
             isOutputJSONMode             |-> cl.json]]

\* An option's argument string: NULL when the option is absent; otherwise
\* whether it holds "Ux" and whether parseDoubleChecked accepts it.
kNull == [given |-> FALSE, hasUx |-> FALSE, isNumber |-> FALSE]

OptionArguments ==
    {kNull} \cup [given : {TRUE}, hasUx : BOOLEAN, isNumber : BOOLEAN]

\* The value a numeric argument string of each option parses to.
SuppliedValue(option) ==
    CASE option = "gamma" -> 4
      [] option = "phi"   -> 3
      [] option = "Rs"    -> 28
      [] option = "G"     -> 7
      [] option = "b"     -> 2
      [] option = "M"     -> 786432

\* parseDoubleChecked (common.c)
parseDoubleChecked(arg, option) ==
    IF arg.isNumber
    THEN [ret |-> kCommonConstantReturnTypeSuccess,
          value |-> RoundToDouble(SuppliedValue(option), 1)]
    ELSE [ret |-> kCommonConstantReturnTypeError, value |-> 0]

\* A mutation of strstrUx: "Ux" is never found.
strstrUxNeverFound(arg) == FALSE

\* strstr(arg, kConstantStringUx) != NULL
strstrUx(arg) == arg.hasUx

\* main's inputVariableNames (src/src/main.c:102): element k of the C array
\* is element k + 1 of this sequence.
inputVariableNames == <<"b", "G", "gamma", "M", "phi", "Rs">>

\* The columns of the input file, by the name in their header.
InputFileColumns ==
    [b |-> 3, G |-> 6, gamma |-> 5, M |-> 262144, phi |-> 4, Rs |-> 32]

\* The values readInputDoubleDistributionsFromCSV stores in inputDistributions:
\* element `index` receives the column named inputVariableNames[index]
\* (src/src/main.c:124-128).
InputFileValues ==
    [index \in 0 .. (kInputDistributionIndexMax - 1) |->
        InputFileColumns[inputVariableNames[index + 1]]]

\* What a read of an indeterminate value may yield.
IndeterminateValues == {0, 5}

(***************************************************************************)
(* State                                                                   *)
(***************************************************************************)
VARIABLES
    pc,                 \* the statement of main / getCommandLineArguments reached
    exitStatus,         \* "running", "EXIT_SUCCESS" or "EXIT_FAILURE"
    rng,                \* the state of the native random number generator
    arguments,          \* CommandLineArguments arguments
    optionArgs,         \* argv's parameter options examined so far (gammaArg .. MArg)
    optionIndex,        \* the option block getCommandLineArguments is at
    inputs,             \* gamma, phi, Rs, G, b, M of main
    sigmaCMpa,
    inputDistributions,
    outputVariables,
    start,
    end,
    cpuTimeUsedInSeconds,   \* in 1/kClocksPerSec seconds
    benchmarkOutput,
    monteCarloOutputSamples,
    monteCarloOutputMeanAndVariance,
    i,                  \* the loop index
    uninit,             \* the locals that hold an indeterminate value
    events              \* the calls made so far, in order

vars == <<pc, exitStatus, rng, arguments, optionArgs, optionIndex, inputs,
          sigmaCMpa, inputDistributions, outputVariables, start, end,
          cpuTimeUsedInSeconds, benchmarkOutput, monteCarloOutputSamples,
          monteCarloOutputMeanAndVariance, i, uninit, events>>

Event(op, what, vals) == [op |-> op, what |-> what, vals |-> vals]

\* The values a read of local `name`, which holds `value` once assigned, yields.
ReadOf(name, value) == IF name \in uninit THEN IndeterminateValues ELSE {value}

kNullSamples == [ptr |-> "NULL", size |-> 0, cells |-> <<>>, written |-> {}]

Init ==
    /\ pc = "getCommandLineArguments"
    /\ exitStatus = "running"
    /\ rng \in Seeds
    /\ arguments = [common |-> ZeroCommonCommandLineArguments,
                    gamma |-> 0, phi |-> 0, Rs |-> 0, G |-> 0, b |-> 0, M |-> 0]
    /\ optionArgs = [o \in {} |-> kNull]
    /\ optionIndex = 0
    /\ inputs = [gamma |-> 0, phi |-> 0, Rs |-> 0, G |-> 0, b |-> 0, M |-> 0]
    /\ sigmaCMpa = 0
    /\ inputDistributions = [index \in 0 .. (kInputDistributionIndexMax - 1) |-> 0]
    /\ outputVariables = <<0>>
    /\ start = 0
    /\ end = 0
    /\ cpuTimeUsedInSeconds = 0
    /\ benchmarkOutput = 0
    /\ monteCarloOutputSamples = kNullSamples
    /\ monteCarloOutputMeanAndVariance = [mean |-> 0, variance |-> 0]
    /\ i = 0
    /\ uninit = {"arguments", "inputs", "sigmaCMpa", "inputDistributions",
                 "outputVariables", "start", "end", "cpuTimeUsedInSeconds",
                 "benchmarkOutput"}
    /\ events = <<>>

(***************************************************************************)
(* getCommandLineArguments (src/unnamed/part_000:230-455)                  *)
(***************************************************************************)
\* setDefaultCommandLineArguments (src/unnamed/part_000:193-228): the
\* defaults, the generator after the draws, and the UxHw calls made.
setDefaultCommandLineArguments(r) ==
    LET r1     == NextRng(r)
        r2     == NextRng(r1)
        r3     == NextRng(r2)
        r4     == NextRng(r3)
        r5     == NextRng(r4)
        r6     == NextRng(r5)
        gamma  == UxHwDoubleUniformDist(kDemoSpecificConstantGammaUniformMin,
                                        kDemoSpecificConstantGammaUniformMax, r)
        phi    == UxHwDoubleUniformDist(kDemoSpecificConstantPhiUniformMin,
                                        kDemoSpecificConstantPhiUniformMax, r1)
        first  == UxHwDoubleGaussDist(
                      kDemoSpecificConstantRsMixtureFirstGaussianMean,
                      kDemoSpecificConstantRsMixtureFirstGaussianStandardDeviation, r2)
        second == UxHwDoubleGaussDist(
                      kDemoSpecificConstantRsMixtureSecondGaussianMean,
                      kDemoSpecificConstantRsMixtureSecondGaussianStandardDeviation, r3)
        Rs     == UxHwDoubleMixture(first, second,
                      kDemoSpecificConstantRsMixtureFirstGaussianWeight, r4)
        G      == UxHwDoubleUniformDist(kDemoSpecificConstantGUniformMin,
                                        kDemoSpecificConstantGUniformMax, r5)
        M      == UxHwDoubleUniformDist(kDemoSpecificConstantMUniformMin,
                                        kDemoSpecificConstantMUniformMax, r6)
    IN  [arguments |->
            [common |-> ZeroCommonCommandLineArguments,
             gamma  |-> gamma,
             phi    |-> phi,
             Rs     |-> Rs,
             G      |-> G,
             b      |-> RoundToDouble(kDemoSpecificConstantB, 1),
             M      |-> M],
         rng   |-> NextRng(r6),
         calls |-> << Event("UxHwDoubleUniformDist", "gamma", <<gamma>>),
                      Event("UxHwDoubleUniformDist", "phi", <<phi>>),
                      Event("UxHwDoubleGaussDist", "Rs", <<first>>),
                      Event("UxHwDoubleGaussDist", "Rs", <<second>>),
                      Event("UxHwDoubleMixture", "Rs", <<Rs>>),
                      Event("UxHwDoubleUniformDist", "G", <<G>>),
                      Event("UxHwDoubleUniformDist", "M", <<M>>) >>]

\* main's `return EXIT_FAILURE` / `return EXIT_SUCCESS`, and exit().
Return(status) ==
    /\ pc' = "done"
    /\ exitStatus' = status

UnchangedLocals ==
    UNCHANGED <<inputs, sigmaCMpa, inputDistributions, outputVariables, start, end,
                cpuTimeUsedInSeconds, benchmarkOutput, monteCarloOutputSamples,
                monteCarloOutputMeanAndVariance, i>>

\* src/unnamed/part_000:241-251
SetDefaults ==
    /\ pc = "getCommandLineArguments"
    /\ LET d == setDefaultCommandLineArguments(rng)
       IN  /\ arguments' = d.arguments
           /\ rng' = d.rng
           /\ events' = events \o d.calls
    /\ uninit' = uninit \ {"arguments"}
    /\ pc' = "parseArgs"
    /\ UNCHANGED <<exitStatus, optionArgs, optionIndex>>
    /\ UnchangedLocals

\* src/unnamed/part_000:253-269
ParseArgs ==
    /\ pc = "parseArgs"
    /\ \E cl \in CommandLines :
         LET parsed == parseArgs(cl, arguments.common)
         IN  /\ arguments' = [arguments EXCEPT !.common = parsed.common]
             /\ IF parsed.ret # kCommonConstantReturnTypeSuccess
                THEN /\ events' = events \o
                          << Event("fprintf(stderr)",
                                   "Parsing command line arguments failed", <<>>),
                             Event("printUsage", "", <<>>) >>
                     /\ Return("EXIT_FAILURE")
                ELSE /\ events' = events
                     /\ pc' = "checkCommon"
                     /\ UNCHANGED exitStatus
    /\ UNCHANGED <<rng, optionArgs, optionIndex, uninit>>
    /\ UnchangedLocals

\* A mutation of IsFileInputInMonteCarloMode: the test is left out.
FileInputNeverRejected(common) == FALSE

\* The test of src/unnamed/part_000:285.
IsFileInputInMonteCarloMode(common) ==
    common.isInputFromFileEnabled /\ common.isMonteCarloMode

\* src/unnamed/part_000:271-290
CheckCommon ==
    /\ pc = "checkCommon"
    /\ IF arguments.common.isHelpEnabled
       THEN /\ events' = events \o << Event("printUsage", "", <<>>),
                                      Event("exit", "EXIT_SUCCESS", <<>>) >>
            /\ Return("EXIT_SUCCESS")
            /\ UNCHANGED optionIndex
       ELSE IF arguments.common.isOutputSelected
       THEN /\ events' = Append(events,
                  Event("fprintf(stderr)",
                        "Error: Output select option not supported.", <<>>))
            /\ Return("EXIT_FAILURE")
            /\ UNCHANGED optionIndex
       ELSE IF IsFileInputInMonteCarloMode(arguments.common)
       THEN /\ events' = Append(events,
                  Event("fprintf(stderr)",
                        "Error: Reading from an input file is not supported for Monte Carlo mode.",
                        <<>>))
            /\ Return("EXIT_FAILURE")
            /\ UNCHANGED optionIndex
       ELSE /\ events' = events
            /\ pc' = "options"
            /\ optionIndex' = 1
            /\ UNCHANGED exitStatus
    /\ UNCHANGED <<rng, arguments, optionArgs, uninit>>
    /\ UnchangedLocals

\* The number of options whose argument has been found so far.
SuppliedSoFar == Cardinality({o \in DOMAIN optionArgs : optionArgs[o].given})

\* One `if (xArg != NULL)` block of src/unnamed/part_000:292-452, for the
\* option `option` whose argument string is `arg`: the return code, the
\* arguments afterwards and the calls made.
ExamineOption(option, arg, args) ==
    IF ~arg.given
    THEN [ret |-> kCommonConstantReturnTypeSuccess, arguments |-> args, calls |-> <<>>]
    ELSE IF args.common.isMonteCarloMode /\ strstrUx(arg)
    THEN [ret |-> kCommonConstantReturnTypeError, arguments |-> args,
          calls |-> << Event("fprintf(stderr)",
              "Error: Native Monte Carlo is not compatible with Ux strings from command line.",
              <<>>) >>]
    ELSE LET parsed == parseDoubleChecked(arg, option)
         IN  IF parsed.ret # kCommonConstantReturnTypeSuccess
             THEN [ret |-> kCommonConstantReturnTypeError, arguments |-> args,
                   calls |-> << Event("fprintf(stderr)",
                                      "Error: The " \o option \o " must be a real number.",
                                      <<>>),
                                Event("printUsage", "", <<>>) >>]
             ELSE [ret |-> kCommonConstantReturnTypeSuccess,
                   arguments |-> [args EXCEPT ![option] = parsed.value],
                   calls |-> <<>>]

\* src/unnamed/part_000:292-454.  The argument string of an option is chosen
\* when its block inspects it.
ParseOption ==
    /\ pc = "options"
    /\ LET option == ParameterOptions[optionIndex]
       IN  \E arg \in OptionArguments :
             /\ arg.given => SuppliedSoFar < MaxSuppliedOptions
             /\ LET r == ExamineOption(option, arg, arguments)
                IN  /\ arguments' = r.arguments
                    /\ events' = events \o r.calls
                    /\ optionArgs' =
                         [o \in DOMAIN optionArgs \cup {option} |->
                             IF o = option THEN arg ELSE optionArgs[o]]
                    /\ IF r.ret # kCommonConstantReturnTypeSuccess
                       THEN /\ Return("EXIT_FAILURE")
                            /\ optionIndex' = 0
                       ELSE IF optionIndex = Len(ParameterOptions)
                       THEN /\ pc' = "readInput"
                            /\ optionIndex' = 0
                            /\ UNCHANGED exitStatus
                       ELSE /\ pc' = "options"
                            /\ optionIndex' = optionIndex + 1
                            /\ UNCHANGED exitStatus
    /\ UNCHANGED <<rng, uninit>>
    /\ UnchangedLocals

(***************************************************************************)
(* main (src/src/main.c:89-314)                                            *)
(***************************************************************************)
\* A mutation of UnchangedArguments: a step of main clears the verbose flag.
ArgumentsVerboseFlagCleared ==
    /\ arguments' = [arguments EXCEPT !.common.isVerbose = FALSE]
    /\ UNCHANGED <<rng, optionArgs, optionIndex>>

UnchangedArguments == UNCHANGED <<rng, arguments, optionArgs, optionIndex>>

\* src/src/main.c:122-132.  readInputDoubleDistributionsFromCSV either fills
\* inputDistributions and returns 0, or fails.
ReadInputDistributions ==
    /\ pc = "readInput"
    /\ IF arguments.common.isInputFromFileEnabled
       THEN \E failed \in BOOLEAN :
              /\ events' = Append(events,
                     Event("readInputDoubleDistributionsFromCSV",
                           IF failed THEN "failure" ELSE "success", <<>>))
              /\ IF failed
                 THEN /\ Return("EXIT_FAILURE")
                      /\ UNCHANGED <<inputDistributions, uninit>>
                 ELSE /\ inputDistributions' = InputFileValues
                      /\ uninit' = uninit \ {"inputDistributions"}
                      /\ pc' = "allocate"
                      /\ UNCHANGED exitStatus
       ELSE /\ pc' = "allocate"
            /\ UNCHANGED <<exitStatus, inputDistributions, uninit, events>>
    /\ UnchangedArguments
    /\ UNCHANGED <<inputs, sigmaCMpa, outputVariables, start, end,
                   cpuTimeUsedInSeconds, benchmarkOutput, monteCarloOutputSamples,
                   monteCarloOutputMeanAndVariance, i>>

\* The test of src/src/main.c:137.
AllocatesSamples(common) == common.isMonteCarloMode

\* src/src/main.c:137-143.  checkedMalloc returns the block or ends the
\* process.
AllocateSamples ==
    /\ pc = "allocate"
    /\ IF AllocatesSamples(arguments.common)
       THEN \E failed \in BOOLEAN :
              /\ events' = Append(events,
                     Event("checkedMalloc", IF failed THEN "failure" ELSE "success",
                           <<arguments.common.numberOfMonteCarloIterations>>))
              /\ IF failed
                 THEN /\ Return("EXIT_FAILURE")
                      /\ UNCHANGED monteCarloOutputSamples
                 ELSE /\ monteCarloOutputSamples' =
                           [ptr     |-> "heap",
                            size    |-> arguments.common.numberOfMonteCarloIterations,
                            cells   |-> [k \in 1 .. arguments.common.numberOfMonteCarloIterations |-> 0],
                            written |-> {}]
                      /\ pc' = "startTiming"
                      /\ UNCHANGED exitStatus
       ELSE /\ pc' = "startTiming"
            /\ UNCHANGED <<exitStatus, monteCarloOutputSamples, events>>
    /\ UnchangedArguments
    /\ UNCHANGED <<inputs, sigmaCMpa, inputDistributions, outputVariables, start, end,
                   cpuTimeUsedInSeconds, benchmarkOutput,
                   monteCarloOutputMeanAndVariance, i, uninit>>

\* A mutation of IsTimed: benchmarking alone does not read the clock.
IsTimedOnlyWhenTimingEnabled(common) == common.isTimingEnabled

\* The test of src/src/main.c:148 and :226.
IsTimed(common) == common.isTimingEnabled \/ common.isBenchmarkingMode

\* src/src/main.c:148-156 (the loop's initialisation included).
StartTiming ==
    /\ pc = "startTiming"
    /\ IF IsTimed(arguments.common)
       THEN \E now \in 0 .. MaxClockTicks :
              /\ start' = now
              /\ uninit' = uninit \ {"start"}
              /\ events' = Append(events, Event("clock", "start", <<now>>))
       ELSE UNCHANGED <<start, uninit, events>>
    /\ i' = 0
    /\ pc' = "loop"
    /\ UnchangedArguments
    /\ UNCHANGED <<exitStatus, inputs, sigmaCMpa, inputDistributions, outputVariables,
                   end, cpuTimeUsedInSeconds, benchmarkOutput, monteCarloOutputSamples,
                   monteCarloOutputMeanAndVariance>>

\* A mutation of loadInputs: with file input, b still comes from the
\* command line.
loadInputsTakesBFromArguments(distributions, args) ==
    IF args.common.isInputFromFileEnabled
    THEN [b     |-> args.b,
          G     |-> distributions[kInputDistributionIndexG],
          gamma |-> distributions[kInputDistributionIndexGamma],
          M     |-> distributions[kInputDistributionIndexM],
          phi   |-> distributions[kInputDistributionIndexPhi],
          Rs    |-> distributions[kInputDistributionIndexRs]]
    ELSE [b     |-> args.b,
          G     |-> args.G,
          gamma |-> args.gamma,
          M     |-> args.M,
          phi   |-> args.phi,
          Rs    |-> args.Rs]

\* loadInputs (src/unnamed/part_000:457-488)
loadInputs(distributions, args) ==
    IF args.common.isInputFromFileEnabled
    THEN [b     |-> distributions[kInputDistributionIndexB],
          G     |-> distributions[kInputDistributionIndexG],
          gamma |-> distributions[kInputDistributionIndexGamma],
          M     |-> distributions[kInputDistributionIndexM],
          phi   |-> distributions[kInputDistributionIndexPhi],
          Rs    |-> distributions[kInputDistributionIndexRs]]
    ELSE [b     |-> args.b,
          G     |-> args.G,
          gamma |-> args.gamma,
          M     |-> args.M,
          phi   |-> args.phi,
          Rs    |-> args.Rs]

\* src/src/main.c:174-182
VerboseLines(in) ==
    << Event("printf", "gamma", <<in.gamma>>),
       Event("printf", "phi", <<in.phi>>),
       Event("printf", "Rs", <<in.Rs>>),
       Event("printf", "G", <<in.G>>),
       Event("printf", "b", <<in.b>>),
       Event("printf", "M", <<in.M>>) >>

\* A mutation of LoopContinues: the bound is off by one.
LoopStopsOneEarly(index, common) ==
    index < common.numberOfMonteCarloIterations - 1

\* A mutation of LoopContinues: the loop runs once more than the count.
LoopRunsOnceMore(index, common) == index <= common.numberOfMonteCarloIterations

\* The loop's condition, src/src/main.c:156.
LoopContinues(index, common) == index < common.numberOfMonteCarloIterations

\* A mutation of SampleCell: every iteration writes element 0.
SampleCellAlwaysFirst(index) == 1

\* The element of monteCarloOutputSamples that iteration `index` writes
\* (src/src/main.c:200), as an index of the model's 1-based sequence.
SampleCell(index) == index + 1

\* A mutation of PopulatesBenchmarkOutput: the loop never assigns
\* benchmarkOutput.
NeverPopulatesBenchmarkOutput(common) == FALSE

\* else if (arguments.common.isBenchmarkingMode), src/src/main.c:205
PopulatesBenchmarkOutput(common) == common.isBenchmarkingMode

\* One iteration of the loop, src/src/main.c:156-209.
LoopIteration ==
    /\ pc = "loop"
    /\ LoopContinues(i, arguments.common)
    /\ \E in \in {loadInputs(inputDistributions, arguments)} :
       \E sigma \in {computeBrownHamModelOutput(in.gamma, in.phi, in.Rs, in.G, in.b, in.M)} :
           /\ inputs' = in
           /\ sigmaCMpa' = sigma
           /\ events' = events
                \o (IF arguments.common.isVerbose THEN VerboseLines(in) ELSE <<>>)
                \o << Event("computeBrownHamModelOutput", "sigmaCMpa", <<sigma>>) >>
                \o (IF arguments.common.isMonteCarloMode
                    THEN << Event("store", "monteCarloOutputSamples",
                                  <<SampleCell(i) - 1, sigma>>) >>
                    ELSE <<>>)
           /\ IF arguments.common.isMonteCarloMode
              THEN /\ monteCarloOutputSamples' =
                        [monteCarloOutputSamples EXCEPT
                            !.cells[SampleCell(i)] = sigma,
                            !.written = @ \cup {SampleCell(i)}]
                   /\ UNCHANGED benchmarkOutput
                   /\ uninit' = uninit \ {"inputs", "sigmaCMpa"}
              ELSE IF PopulatesBenchmarkOutput(arguments.common)
              THEN /\ benchmarkOutput' = sigma
                   /\ uninit' = uninit \ {"inputs", "sigmaCMpa", "benchmarkOutput"}
                   /\ UNCHANGED monteCarloOutputSamples
              ELSE /\ uninit' = uninit \ {"inputs", "sigmaCMpa"}
                   /\ UNCHANGED <<benchmarkOutput, monteCarloOutputSamples>>
    /\ i' = i + 1
    /\ UnchangedArguments
    /\ UNCHANGED <<pc, exitStatus, inputDistributions, outputVariables, start, end,
                   cpuTimeUsedInSeconds, monteCarloOutputMeanAndVariance>>

\* A mutation of ComputesStatistics: the statistics are left out unless the
\* run is benchmarking.
ComputesStatisticsWhenBenchmarking(common) ==
    common.isMonteCarloMode /\ common.isBenchmarkingMode

\* The test of src/src/main.c:215.
ComputesStatistics(common) == common.isMonteCarloMode

\* The loop's exit and src/src/main.c:215-221.
ComputeStatistics ==
    /\ pc = "loop"
    /\ ~LoopContinues(i, arguments.common)
    /\ IF ComputesStatistics(arguments.common)
       THEN \E stats \in {calculateMeanAndVarianceOfDoubleSamples(
                             monteCarloOutputSamples.cells,
                             arguments.common.numberOfMonteCarloIterations)} :
                /\ monteCarloOutputMeanAndVariance' = stats
                /\ benchmarkOutput' = stats.mean
                /\ uninit' = uninit \ {"benchmarkOutput"}
                /\ events' = Append(events,
                       Event("calculateMeanAndVarianceOfDoubleSamples", "",
                             <<arguments.common.numberOfMonteCarloIterations>>
                                 \o monteCarloOutputSamples.cells))
       ELSE UNCHANGED <<monteCarloOutputMeanAndVariance, benchmarkOutput, uninit, events>>
    /\ pc' = "stopTiming"
    /\ UnchangedArguments
    /\ UNCHANGED <<exitStatus, inputs, sigmaCMpa, inputDistributions, outputVariables,
                   start, end, cpuTimeUsedInSeconds, monteCarloOutputSamples, i>>

\* ((double) (end - start)) / CLOCKS_PER_SEC, src/src/main.c:229, in units of
\* 1/kClocksPerSec seconds.
ElapsedSeconds(first, last) == RoundToDouble(last - first, 1)

\* src/src/main.c:226-230
StopTiming ==
    /\ pc = "stopTiming"
    /\ IF IsTimed(arguments.common)
       THEN \E elapsed \in 0 .. MaxClockTicks :
              /\ end' = start + elapsed
              /\ cpuTimeUsedInSeconds' = ElapsedSeconds(start, end')
              /\ uninit' = uninit \ {"end", "cpuTimeUsedInSeconds"}
              /\ events' = Append(events, Event("clock", "end", <<end'>>))
       ELSE UNCHANGED <<end, cpuTimeUsedInSeconds, uninit, events>>
    /\ pc' = "report"
    /\ UnchangedArguments
    /\ UNCHANGED <<exitStatus, inputs, sigmaCMpa, inputDistributions, outputVariables,
                   start, benchmarkOutput, monteCarloOutputSamples,
                   monteCarloOutputMeanAndVariance, i>>

\* (uint64_t)(cpuTimeUsedInSeconds * 1000000), src/src/main.c:244 and :282.
Microseconds(cpuTime) == (cpuTime * kMicrosecondsPerSecond) \div kClocksPerSec

\* printJSONFormattedOutput (src/unnamed/part_000:490-532)
printJSONFormattedOutput(sigma, cpuTime, args) ==
    IF args.common.isTimingEnabled
    THEN Event("printJSONVariables", "sigmaCMpa,cpuTimeUsed", <<sigma, cpuTime>>)
    ELSE Event("printJSONVariables", "sigmaCMpa", <<sigma>>)

\* A mutation of ReportLines: the benchmark line prints sigmaCMpa, not
\* benchmarkOutput.
ReportLinesBenchmarkPrintsSigma(common, sigma, benchmark, cpuTime, args) ==
    IF common.isBenchmarkingMode
    THEN << Event("printf", "benchmark", <<sigma, Microseconds(cpuTime)>>) >>
    ELSE (IF common.isOutputJSONMode
          THEN << printJSONFormattedOutput(sigma, cpuTime, args) >>
          ELSE << Event("printf", "Cutting stress", <<sigma>>) >>)
         \o (IF common.isTimingEnabled
             THEN << Event("printf", "CPU time used", <<cpuTime>>) >>
             ELSE <<>>)

\* A mutation of ReportLines: the CPU time line is printed in benchmarking
\* mode too.
ReportLinesBenchmarkPrintsTime(common, sigma, benchmark, cpuTime, args) ==
    (IF common.isBenchmarkingMode
     THEN << Event("printf", "benchmark", <<benchmark, Microseconds(cpuTime)>>) >>
     ELSE IF common.isOutputJSONMode
     THEN << printJSONFormattedOutput(sigma, cpuTime, args) >>
     ELSE << Event("printf", "Cutting stress", <<sigma>>) >>)
    \o (IF common.isTimingEnabled
        THEN << Event("printf", "CPU time used", <<cpuTime>>) >>
        ELSE <<>>)

\* The lines src/src/main.c:242-273 print, given the values read.
ReportLines(common, sigma, benchmark, cpuTime, args) ==
    IF common.isBenchmarkingMode
    THEN << Event("printf", "benchmark", <<benchmark, Microseconds(cpuTime)>>) >>
    ELSE (IF common.isOutputJSONMode
          THEN << printJSONFormattedOutput(sigma, cpuTime, args) >>
          ELSE << Event("printf", "Cutting stress", <<sigma>>) >>)
         \o (IF common.isTimingEnabled
             THEN << Event("printf", "CPU time used", <<cpuTime>>) >>
             ELSE <<>>)

\* src/src/main.c:235-273
ReportOutputs ==
    /\ pc = "report"
    /\ \E sigma \in ReadOf("sigmaCMpa", sigmaCMpa),
          benchmark \in ReadOf("benchmarkOutput", benchmarkOutput),
          cpuTime \in ReadOf("cpuTimeUsedInSeconds", cpuTimeUsedInSeconds) :
         /\ outputVariables' = <<sigma>>
         /\ events' = events
              \o ReportLines(arguments.common, sigma, benchmark, cpuTime, arguments)
    /\ uninit' = uninit \ {"outputVariables"}
    /\ pc' = "save"
    /\ UnchangedArguments
    /\ UNCHANGED <<exitStatus, inputs, sigmaCMpa, inputDistributions, start, end,
                   cpuTimeUsedInSeconds, benchmarkOutput, monteCarloOutputSamples,
                   monteCarloOutputMeanAndVariance, i>>

\* A mutation of CSVWriteFailureStatus: the failed write is not reported to
\* the caller.
CSVWriteFailureIgnored == "EXIT_SUCCESS"

\* The status main returns when the output CSV cannot be written,
\* src/src/main.c:300.
CSVWriteFailureStatus == "EXIT_FAILURE"

\* src/src/main.c:278-303
SaveOutputs ==
    /\ pc = "save"
    /\ IF arguments.common.isMonteCarloMode
       THEN \E cpuTime \in ReadOf("cpuTimeUsedInSeconds", cpuTimeUsedInSeconds) :
              /\ events' = Append(events,
                     Event("saveMonteCarloDoubleDataToDataDotOutFile", "data.out",
                           <<Microseconds(cpuTime),
                             arguments.common.numberOfMonteCarloIterations>>
                               \o monteCarloOutputSamples.cells))
              /\ pc' = "free"
              /\ UNCHANGED exitStatus
       ELSE IF arguments.common.isWriteToFileEnabled
       THEN \E failed \in BOOLEAN :
              IF failed
              THEN /\ events' = events \o
                        << Event("writeOutputDoubleDistributionsToCSV", "failure",
                                 outputVariables),
                           Event("fprintf(stderr)",
                                 "Error: Could not write to output CSV file \"outputFilePath\".",
                                 <<>>) >>
                   /\ Return(CSVWriteFailureStatus)
              ELSE /\ events' = Append(events,
                        Event("writeOutputDoubleDistributionsToCSV", "success",
                              outputVariables))
                   /\ pc' = "free"
                   /\ UNCHANGED exitStatus
       ELSE /\ pc' = "free"
            /\ UNCHANGED <<exitStatus, events>>
    /\ UnchangedArguments
    /\ UnchangedLocals
    /\ UNCHANGED uninit

\* A mutation of FreesSamples: the block is not released in benchmarking
\* mode.
FreesSamplesUnlessBenchmarking(common) ==
    common.isMonteCarloMode /\ ~common.isBenchmarkingMode

\* The test of src/src/main.c:308.
FreesSamples(common) == common.isMonteCarloMode

\* src/src/main.c:308-313
FreeAndReturn ==
    /\ pc = "free"
    /\ IF FreesSamples(arguments.common)
       THEN /\ monteCarloOutputSamples' = [monteCarloOutputSamples EXCEPT !.ptr = "freed"]
            /\ events' = Append(events, Event("free", "monteCarloOutputSamples", <<>>))
       ELSE UNCHANGED <<monteCarloOutputSamples, events>>
    /\ Return("EXIT_SUCCESS")
    /\ UnchangedArguments
    /\ UNCHANGED <<inputs, sigmaCMpa, inputDistributions, outputVariables, start, end,
                   cpuTimeUsedInSeconds, benchmarkOutput,
                   monteCarloOutputMeanAndVariance, i, uninit>>

Next ==
    \/ SetDefaults
    \/ ParseArgs
    \/ CheckCommon
    \/ ParseOption
    \/ ReadInputDistributions
    \/ AllocateSamples
    \/ StartTiming
    \/ LoopIteration
    \/ ComputeStatistics
    \/ StopTiming
    \/ ReportOutputs
    \/ SaveOutputs
    \/ FreeAndReturn

Spec == Init /\ [][Next]_vars

\* main is sequential code: the statement it is at is executed.
FairSpec == Spec /\ WF_vars(Next)

(***************************************************************************)
(* Vocabulary of the properties                                            *)
(***************************************************************************)
Iterations == arguments.common.numberOfMonteCarloIterations

EventsWith(op) == {k \in DOMAIN events : events[k].op = op}

EventsOf(op, what) ==
    {k \in DOMAIN events : events[k].op = op /\ events[k].what = what}

\* The calls into the distribution back end.
Draws ==
    EventsWith("UxHwDoubleUniformDist") \cup EventsWith("UxHwDoubleGaussDist")
        \cup EventsWith("UxHwDoubleMixture")

\* The calls that yield the sample of parameter `option`.
DrawsOf(option) ==
    IF option = "Rs" THEN EventsOf("UxHwDoubleMixture", "Rs")
    ELSE EventsOf("UxHwDoubleUniformDist", option)

\* The parameters whose default is a distribution (b is a constant).
DistributedParameters == {"gamma", "phi", "Rs", "G", "M"}

\* The option was given on the command line.
IsSupplied(option) == option \in DOMAIN optionArgs /\ optionArgs[option].given

Evaluations == EventsWith("computeBrownHamModelOutput")

Stores == EventsOf("store", "monteCarloOutputSamples")

Allocations == EventsOf("checkedMalloc", "success")

VerboseLineNames == {"gamma", "phi", "Rs", "G", "b", "M"}

IsStdoutLine(e) == e.op \in {"printf", "printJSONVariables"}

\* Lines on standard output.
StdoutLines == {k \in DOMAIN events : IsStdoutLine(events[k])}

IsVerboseLine(e) == e.op = "printf" /\ e.what \in VerboseLineNames

VerboseListing == {k \in DOMAIN events : IsVerboseLine(events[k])}

IsBenchmarkLine(e) == e.op = "printf" /\ e.what = "benchmark"

\* The lines that report the result: the human-readable line, the JSON
\* output and the benchmark line.
IsResultLine(e) ==
    \/ e.op = "printf" /\ e.what \in {"Cutting stress", "benchmark"}
    \/ e.op = "printJSONVariables"

\* A write of data.out or of the output CSV.
IsFileWrite(e) ==
    e.op \in {"saveMonteCarloDoubleDataToDataDotOutFile",
              "writeOutputDoubleDistributionsToCSV"}

ResultLines == {k \in DOMAIN events : IsResultLine(events[k])}

DataOutWrites == EventsWith("saveMonteCarloDoubleDataToDataDotOutFile")

CSVWrites == EventsWith("writeOutputDoubleDistributionsToCSV")

\* The messages getCommandLineArguments prints before it returns an error.
ConfigurationErrorMessages ==
    {"Parsing command line arguments failed",
     "Error: Output select option not supported.",
     "Error: Reading from an input file is not supported for Monte Carlo mode.",
     "Error: Native Monte Carlo is not compatible with Ux strings from command line."}
    \cup {"Error: The " \o ParameterOptions[k] \o " must be a real number." :
            k \in DOMAIN ParameterOptions}

ConfigurationErrors ==
    {k \in EventsWith("fprintf(stderr)") : events[k].what \in ConfigurationErrorMessages}

\* getCommandLineArguments has returned success to main.
ArgumentsAccepted ==
    \/ pc \in {"readInput", "allocate", "startTiming", "loop", "stopTiming",
               "report", "save", "free"}
    \/ /\ pc = "done"
       /\ "arguments" \notin uninit
       /\ EventsWith("exit") = {}
       /\ ConfigurationErrors = {}

\* The loop of main has run to its end.
LoopCompleted ==
    \/ pc \in {"stopTiming", "report", "save", "free"}
    \/ pc = "done" /\ "outputVariables" \notin uninit

\* The k-th element of a finite set of event indices, in order.
RECURSIVE Sorted(_)
Sorted(S) ==
    IF S = {} THEN <<>>
    ELSE LET m == CHOOSE x \in S : \A y \in S : x <= y
         IN  <<m>> \o Sorted(S \ {m})

(***************************************************************************)
(* C1.  In Monte Carlo mode with N iterations every iteration draws a      *)
(* fresh Sample Set: once the loop has run, the kernel has been evaluated  *)
(* N times and each distributed parameter that was not given on the        *)
(* command line has been drawn N times.                                    *)
(***************************************************************************)
C1_FreshSampleSetEveryIteration ==
    (LoopCompleted /\ arguments.common.isMonteCarloMode) =>
        /\ Cardinality(Evaluations) = Iterations
        /\ \A option \in DistributedParameters :
             ~IsSupplied(option) => Cardinality(DrawsOf(option)) = Iterations

(***************************************************************************)
(* C2.  A run that asks for file input together with Monte Carlo mode (and *)
(* not for help) ends in failure, and nothing has been drawn, allocated or *)
(* evaluated in it.                                                        *)
(***************************************************************************)
C2_RejectedBeforeAnySampling ==
    (/\ pc \notin {"getCommandLineArguments", "parseArgs", "checkCommon"}
     /\ arguments.common.isInputFromFileEnabled
     /\ arguments.common.isMonteCarloMode
     /\ ~arguments.common.isHelpEnabled) =>
        /\ pc = "done"
        /\ exitStatus = "EXIT_FAILURE"
        /\ Draws = {}
        /\ EventsWith("checkedMalloc") = {}
        /\ Evaluations = {}

(***************************************************************************)
(* C3 as stated.  In Monte Carlo mode every line that reports the result   *)
(* (human-readable, JSON, benchmark) carries the mean of the Output Sample *)
(* Buffer.                                                                 *)
(***************************************************************************)
C3_ReportedResultIsMean ==
    arguments.common.isMonteCarloMode =>
        \A k \in ResultLines :
            events[k].vals[1] = monteCarloOutputMeanAndVariance.mean

(***************************************************************************)
(* C3 as amended.  In Monte Carlo mode the first field of the benchmark    *)
(* line is the mean that calculateMeanAndVarianceOfDoubleSamples computes  *)
(* over the buffer, while the human-readable line and the JSON sigmaCMpa   *)
(* value are the kernel output of the last iteration.                      *)
(***************************************************************************)
C3_BenchmarkIsMeanOthersLastSample ==
    arguments.common.isMonteCarloMode =>
        /\ \A k \in EventsOf("printf", "benchmark") :
             events[k].vals[1] =
                calculateMeanAndVarianceOfDoubleSamples(
                    monteCarloOutputSamples.cells, Iterations).mean
        /\ \A k \in EventsOf("printf", "Cutting stress") \cup EventsWith("printJSONVariables") :
             /\ Iterations \in monteCarloOutputSamples.written
             /\ events[k].vals[1] = monteCarloOutputSamples.cells[Iterations]

\* A Monte Carlo run has printed a human-readable or JSON result that is not
\* the mean of its buffer.
C3_Witness ==
    /\ arguments.common.isMonteCarloMode
    /\ \E k \in EventsOf("printf", "Cutting stress") \cup EventsWith("printJSONVariables") :
         events[k].vals[1] # monteCarloOutputMeanAndVariance.mean
    /\ Iterations >= 2
    /\ pc = "done"

(***************************************************************************)
(* C4.  Whenever data.out is written, cpuTimeUsedInSeconds has been        *)
(* assigned from (end - start) and line 1 of the file is that time in      *)
(* microseconds.                                                           *)
(***************************************************************************)
C4_DataOutHeaderIsMeasuredTime ==
    \A k \in DataOutWrites :
        /\ "cpuTimeUsedInSeconds" \notin uninit
        /\ events[k].vals[1] = Microseconds(ElapsedSeconds(start, end))

Reported ==
    \/ pc \in {"save", "free"}
    \/ pc = "done" /\ "outputVariables" \notin uninit

BenchmarkLines == EventsOf("printf", "benchmark")

(***************************************************************************)
(* C6 as stated.  In benchmarking mode standard output carries nothing but *)
(* the benchmark line, and exactly one of it once main has reported.       *)
(***************************************************************************)
C6_BenchmarkLineOnly ==
    arguments.common.isBenchmarkingMode =>
        /\ StdoutLines \subseteq BenchmarkLines
        /\ Reported => Cardinality(BenchmarkLines) = 1

(***************************************************************************)
(* C6 as amended.  In benchmarking mode main's report is exactly one line  *)
(* of two fields, with no human-readable result line, no JSON and no 'CPU  *)
(* time used' line; the per-iteration input listing is still printed, six  *)
(* lines per iteration and before the benchmark line, when verbose is set. *)
(***************************************************************************)
C6_BenchmarkLineAfterVerboseListing ==
    arguments.common.isBenchmarkingMode =>
        /\ \A k \in DOMAIN events :
             IsStdoutLine(events[k]) =>
                \/ IsVerboseLine(events[k])
                \/ /\ IsBenchmarkLine(events[k])
                   /\ Len(events[k].vals) = 2
                   /\ \A v \in (k + 1) .. Len(events) : ~IsStdoutLine(events[v])
        /\ Cardinality(BenchmarkLines) = (IF Reported THEN 1 ELSE 0)
        /\ Cardinality(VerboseListing) =
              (IF arguments.common.isVerbose THEN 6 * i ELSE 0)

\* A verbose benchmarking run over several iterations has ended with its
\* listing and its benchmark line printed.
C6_Witness ==
    /\ pc = "done"
    /\ exitStatus = "EXIT_SUCCESS"
    /\ arguments.common.isBenchmarkingMode
    /\ arguments.common.isVerbose
    /\ Iterations >= 2
    /\ Cardinality(VerboseListing) = 6 * Iterations
    /\ Cardinality(BenchmarkLines) = 1

(***************************************************************************)
(* C7.  In Monte Carlo mode the buffer has N elements; iteration k (from   *)
(* 0) writes element k and no other, once, so that after k iterations the  *)
(* elements 0..k-1 hold the kernel outputs in iteration order; the         *)
(* statistics routine and the data.out writer receive that sequence with   *)
(* length N.                                                               *)
(***************************************************************************)
C7_BufferHoldsOutputsInIterationOrder ==
    monteCarloOutputSamples.ptr # "NULL" =>
        LET stores      == Sorted(Stores)
            evaluations == Sorted(Evaluations)
            buffer      == monteCarloOutputSamples
        IN  /\ buffer.size = Iterations
            /\ Len(buffer.cells) = Iterations
            /\ i <= Iterations
            /\ buffer.written = 1 .. i
            /\ Len(stores) = i
            /\ Len(evaluations) = i
            /\ \A k \in 1 .. i :
                 /\ evaluations[k] < stores[k]
                 /\ events[stores[k]].vals =
                       <<k - 1, events[evaluations[k]].vals[1]>>
                 /\ buffer.cells[k] = events[evaluations[k]].vals[1]
            /\ \A k \in EventsWith("calculateMeanAndVarianceOfDoubleSamples") :
                 /\ i = Iterations
                 /\ events[k].vals = <<Iterations>> \o buffer.cells
            /\ \A k \in DataOutWrites :
                 /\ i = Iterations
                 /\ SubSeq(events[k].vals, 2, Len(events[k].vals)) =
                       <<Iterations>> \o buffer.cells

\* A Monte Carlo run of several iterations has written data.out and ended.
C7_Witness ==
    /\ pc = "done"
    /\ arguments.common.isMonteCarloMode
    /\ Iterations >= 2
    /\ DataOutWrites # {}
    /\ monteCarloOutputSamples.written = 1 .. Iterations

(***************************************************************************)
(* C8.  The buffer is allocated exactly when Monte Carlo mode is active,   *)
(* before the first iteration and once; no exit of main leaves it          *)
(* allocated; an exit before the loop never allocated it; and the          *)
(* output-CSV failure return has no buffer to release.                     *)
(***************************************************************************)
C8_BufferAllocatedIffMonteCarloAndFreed ==
    /\ monteCarloOutputSamples.ptr # "NULL" => arguments.common.isMonteCarloMode
    /\ pc \in {"startTiming", "loop", "stopTiming", "report", "save", "free"} =>
         (monteCarloOutputSamples.ptr = "heap" <=> arguments.common.isMonteCarloMode)
    /\ Cardinality(Allocations) <= 1
    /\ arguments.common.isMonteCarloMode =>
         \A e \in Evaluations : \E a \in Allocations : a < e
    /\ pc = "done" => monteCarloOutputSamples.ptr # "heap"
    /\ (pc = "done" /\ Evaluations = {}) => monteCarloOutputSamples.ptr = "NULL"
    /\ EventsOf("writeOutputDoubleDistributionsToCSV", "failure") # {} =>
         monteCarloOutputSamples.ptr = "NULL"
    /\ Cardinality(EventsWith("free")) =
          (IF monteCarloOutputSamples.ptr = "freed" THEN 1 ELSE 0)

\* A Monte Carlo run has completed and released its buffer.
C8_Witness ==
    /\ pc = "done"
    /\ exitStatus = "EXIT_SUCCESS"
    /\ monteCarloOutputSamples.ptr = "freed"
    /\ Allocations # {}

(***************************************************************************)
(* C9.  A run in which getCommandLineArguments has reported an error is    *)
(* over with failure status, with no kernel evaluation, nothing on         *)
(* standard output and no data.out or CSV written; and a command line that *)
(* it accepted has none of the faults: no output selection, not file input *)
(* with Monte Carlo, every given parameter a real number and, in Monte     *)
(* Carlo mode, free of "Ux".                                               *)
(***************************************************************************)
C9_ConfigurationErrorFailsWithoutOutput ==
    /\ ConfigurationErrors # {} =>
         /\ pc = "done"
         /\ exitStatus = "EXIT_FAILURE"
         /\ Evaluations = {}
         /\ StdoutLines = {}
         /\ DataOutWrites = {}
         /\ CSVWrites = {}
    /\ ArgumentsAccepted =>
         /\ ~arguments.common.isOutputSelected
         /\ ~(arguments.common.isInputFromFileEnabled /\ arguments.common.isMonteCarloMode)
         /\ \A option \in DOMAIN optionArgs :
              optionArgs[option].given =>
                 /\ optionArgs[option].isNumber
                 /\ arguments.common.isMonteCarloMode => ~optionArgs[option].hasUx

\* The last of the parameter checks has rejected the command line.
C9_Witness ==
    /\ pc = "done"
    /\ exitStatus = "EXIT_FAILURE"
    /\ \E k \in ConfigurationErrors :
         events[k].what = "Error: The M must be a real number."

(***************************************************************************)
(* C10.  A failed write of the output CSV is followed at once by the error *)
(* message that names the path and by the return of EXIT_FAILURE; a result *)
(* line was printed before the write was attempted; and the run is not in  *)
(* Monte Carlo mode and has write-to-file enabled.                         *)
(***************************************************************************)
C10_CSVWriteFailureReportedAfterResult ==
    \A k \in EventsOf("writeOutputDoubleDistributionsToCSV", "failure") :
        /\ Len(events) = k + 1
        /\ events[k + 1].op = "fprintf(stderr)"
        /\ events[k + 1].what =
              "Error: Could not write to output CSV file \"outputFilePath\"."
        /\ pc = "done"
        /\ exitStatus = "EXIT_FAILURE"
        /\ \E r \in ResultLines : r < k
        /\ ~arguments.common.isMonteCarloMode
        /\ arguments.common.isWriteToFileEnabled

\* The write of the output CSV has failed.
C10_Witness ==
    /\ EventsOf("writeOutputDoubleDistributionsToCSV", "failure") # {}
    /\ ResultLines # {}

(***************************************************************************)
(* C11 as stated.  Once getCommandLineArguments has returned success, no   *)
(* step of the run changes the arguments struct or inputDistributions.     *)
(***************************************************************************)
C11_ConfigurationReadOnlyAfterArguments ==
    [][ArgumentsAccepted =>
          /\ arguments' = arguments
          /\ inputDistributions' = inputDistributions]_vars

(***************************************************************************)
(* C11 as amended.  Once getCommandLineArguments has returned success no   *)
(* step changes the arguments struct; inputDistributions is written by the *)
(* read of the input file that follows that return, and by no step after   *)
(* it: from the buffer allocation on, through every iteration and the      *)
(* report, both stay as they are.                                          *)
(***************************************************************************)
C11_ConfigurationReadOnlyAfterInputRead ==
    [][ArgumentsAccepted =>
          /\ arguments' = arguments
          /\ pc # "readInput" => inputDistributions' = inputDistributions
          /\ (pc = "readInput" /\ inputDistributions' # inputDistributions) =>
                arguments.common.isInputFromFileEnabled]_vars

\* A run with file input and JSON output has loaded its inputs from the file,
\* printed its report and ended.
C11_Witness ==
    /\ pc = "done"
    /\ exitStatus = "EXIT_SUCCESS"
    /\ arguments.common.isInputFromFileEnabled
    /\ arguments.common.isOutputJSONMode
    /\ "inputDistributions" \notin uninit
    /\ EventsWith("printJSONVariables") # {}

(***************************************************************************)
(* C12.  Outside Monte Carlo mode the iteration count is 1 and the loop    *)
(* body runs exactly once: when the loop is over the kernel has been       *)
(* evaluated once, on the one set of inputs of the run, each distributed   *)
(* parameter having been drawn once.                                       *)
(***************************************************************************)
C12_SingleShotRunsLoopOnce ==
    (ArgumentsAccepted /\ ~arguments.common.isMonteCarloMode) =>
        /\ Iterations = 1
        /\ i <= 1
        /\ Cardinality(Evaluations) = i
        /\ LoopCompleted => i = 1
        /\ \A option \in DistributedParameters : Cardinality(DrawsOf(option)) = 1

\* A single-shot run has ended after its one evaluation.
C12_Witness ==
    /\ pc = "done"
    /\ exitStatus = "EXIT_SUCCESS"
    /\ ~arguments.common.isMonteCarloMode
    /\ Cardinality(Evaluations) = 1
    /\ i = 1

ClockStarts == EventsOf("clock", "start")

ClockEnds == EventsOf("clock", "end")

(***************************************************************************)
(* C13.  With timing or benchmarking enabled the clock is read twice: once *)
(* before the first kernel evaluation and once after the last one and      *)
(* after the Monte Carlo statistics, all iterations lying between the two  *)
(* readings; with neither enabled the clock is not read.                   *)
(***************************************************************************)
C13_ClockBracketsLoop ==
    LET starts      == ClockStarts
        ends        == ClockEnds
        evaluations == Evaluations
    IN  /\ ~(arguments.common.isTimingEnabled \/ arguments.common.isBenchmarkingMode) =>
             starts \cup ends = {}
        /\ Cardinality(starts) <= 1
        /\ Cardinality(ends) <= 1
        /\ \A e \in evaluations \cup EventsWith("calculateMeanAndVarianceOfDoubleSamples") :
             /\ \A s \in starts : s < e
             /\ \A t \in ends : e < t
        /\ (arguments.common.isTimingEnabled \/ arguments.common.isBenchmarkingMode) =>
             /\ pc \in {"loop", "stopTiming"} =>
                  Cardinality(starts) = 1 /\ ends = {}
             /\ (LoopCompleted /\ pc # "stopTiming") =>
                  /\ Cardinality(starts) = 1
                  /\ Cardinality(ends) = 1
                  /\ Cardinality(evaluations) = Iterations

\* A benchmarking Monte Carlo run of several iterations has ended with both
\* clock readings taken.
C13_Witness ==
    /\ pc = "done"
    /\ arguments.common.isBenchmarkingMode
    /\ ~arguments.common.isTimingEnabled
    /\ arguments.common.isMonteCarloMode
    /\ Iterations >= 2
    /\ Cardinality(ClockStarts \cup ClockEnds) = 2

(***************************************************************************)
(* The reference variant (src/unnamed/part_000:1-117): a program of its    *)
(* own, with the same kernel written inline.  Its quantities are held in   *)
(* the variables inputs, sigmaCMpa, i, uninit and events; M in 0.01, so    *)
(* that the table and its partial sums are integers, gamma in 0.05, phi in *)
(* 0.125, Rs in 1E-9 m, G in 1E10 Pa, b in 2.54E-10 m.                     *)
(***************************************************************************)
empiricalTaylorFactorValues ==
    << 320, 390, 410, 320, 380, 380, 210, 300, 190, 390,
       230, 220, 320, 220, 390, 220, 190, 320, 390, 310 >>

\* sizeof(empiricalTaylorFactorValues)/sizeof(double)
TaylorFactorCount == Len(empiricalTaylorFactorValues)

\* What the M of the reference main, declared without initialiser
\* (src/unnamed/part_000:100), may hold when loadInputs first reads it.
ReferenceIndeterminateM == {-6100, -100, 0, 1, 100, 6100}

\* The inline expression of the reference main, src/unnamed/part_000:111.
ReferenceCuttingStress(gamma, phi, Rs, G, b, M) ==
    RoundToDouble(((M * gamma) \div (2 * b))
                    * (sqrt((8 * gamma * phi * Rs) \div (kPi * G * b * b)) - phi),
                  kPascalsPerMegapascal)

InitReference ==
    /\ pc = "reference:loadInputs"
    /\ exitStatus = "running"
    /\ rng \in Seeds
    /\ arguments = [common |-> ZeroCommonCommandLineArguments,
                    gamma |-> 0, phi |-> 0, Rs |-> 0, G |-> 0, b |-> 0, M |-> 0]
    /\ optionArgs = [o \in {} |-> kNull]
    /\ optionIndex = 0
    /\ \E m \in ReferenceIndeterminateM :
         inputs = [gamma |-> 0, phi |-> 0, Rs |-> 0, G |-> 0, b |-> 0, M |-> m]
    /\ sigmaCMpa = 0
    /\ inputDistributions = [index \in 0 .. (kInputDistributionIndexMax - 1) |-> 0]
    /\ outputVariables = <<0>>
    /\ start = 0
    /\ end = 0
    /\ cpuTimeUsedInSeconds = 0
    /\ benchmarkOutput = 0
    /\ monteCarloOutputSamples = kNullSamples
    /\ monteCarloOutputMeanAndVariance = [mean |-> 0, variance |-> 0]
    /\ i = 0
    /\ uninit = {"G", "M", "Rs", "b", "gamma", "phi", "sigmaCMpa"}
    /\ events = <<>>

UnchangedByReference ==
    UNCHANGED <<rng, arguments, optionArgs, optionIndex, inputDistributions,
                outputVariables, start, end, cpuTimeUsedInSeconds, benchmarkOutput,
                monteCarloOutputSamples, monteCarloOutputMeanAndVariance>>

\* One iteration of the loop of loadInputs, src/unnamed/part_000:84-87:
\* *M += empiricalTaylorFactorValues[i].
ReferenceAccumulate ==
    /\ pc = "reference:loadInputs"
    /\ i < TaylorFactorCount
    /\ inputs' = [inputs EXCEPT !.M = @ + empiricalTaylorFactorValues[i + 1]]
    /\ i' = i + 1
    /\ uninit' = uninit \ {"M"}
    /\ UnchangedByReference
    /\ UNCHANGED <<pc, exitStatus, sigmaCMpa, events>>

\* The rest of loadInputs, src/unnamed/part_000:88-94.
ReferenceLoadConstants ==
    /\ pc = "reference:loadInputs"
    /\ ~(i < TaylorFactorCount)
    /\ inputs' = [gamma |-> 4, phi |-> 3, Rs |-> 20, G |-> 7, b |-> 1,
                  M     |-> inputs.M \div TaylorFactorCount]
    /\ uninit' = uninit \ {"G", "Rs", "b", "gamma", "phi"}
    /\ pc' = "reference:evaluate"
    /\ UnchangedByReference
    /\ UNCHANGED <<exitStatus, sigmaCMpa, i, events>>

\* src/unnamed/part_000:111-116
ReferenceEvaluate ==
    /\ pc = "reference:evaluate"
    /\ LET sigma == ReferenceCuttingStress(inputs.gamma, inputs.phi, inputs.Rs,
                                           inputs.G, inputs.b, inputs.M)
       IN  /\ sigmaCMpa' = sigma
           /\ events' = Append(events, Event("printf", "Alloy strength", <<sigma>>))
    /\ uninit' = uninit \ {"sigmaCMpa"}
    /\ pc' = "reference:done"
    /\ exitStatus' = "EXIT_SUCCESS"
    /\ UnchangedByReference
    /\ UNCHANGED <<inputs, i>>

NextReference ==
    \/ ReferenceAccumulate
    \/ ReferenceLoadConstants
    \/ ReferenceEvaluate

SpecReference == InitReference /\ [][NextReference]_vars

RECURSIVE SumOfValues(_, _)
SumOfValues(values, n) ==
    IF n = 0 THEN 0 ELSE SumOfValues(values, n - 1) + values[n]

\* The arithmetic mean of the table.
TaylorFactorMean ==
    SumOfValues(empiricalTaylorFactorValues, TaylorFactorCount) \div TaylorFactorCount

(***************************************************************************)
(* C14.  In the reference variant, once loadInputs has returned, M is the  *)
(* arithmetic mean of the 20 table values whatever M held before the call, *)
(* and G, Rs, b, gamma and phi hold their constants.                       *)
(***************************************************************************)
C14_TaylorFactorIsTableMean ==
    pc \in {"reference:evaluate", "reference:done"} =>
        /\ inputs.M = TaylorFactorMean
        /\ inputs.G = 7
        /\ inputs.Rs = 20
        /\ inputs.b = 1
        /\ inputs.gamma = 4
        /\ inputs.phi = 3

(***************************************************************************)
(* The kernel on its own: computeBrownHamModelOutput called twice on six   *)
(* arguments drawn from the ranges of the inputs.                          *)
(***************************************************************************)
KernelArguments ==
    [gamma : {3, 4, 5}, phi : {2, 3}, Rs : {8, 12, 28}, G : {6, 8}, b : {1, 2},
     M : {196608, 327680, 786432}]

InitKernel ==
    /\ pc = "kernel:call"
    /\ exitStatus = "running"
    /\ rng \in Seeds
    /\ arguments = [common |-> ZeroCommonCommandLineArguments,
                    gamma |-> 0, phi |-> 0, Rs |-> 0, G |-> 0, b |-> 0, M |-> 0]
    /\ optionArgs = [o \in {} |-> kNull]
    /\ optionIndex = 0
    /\ inputs \in KernelArguments
    /\ sigmaCMpa = 0
    /\ inputDistributions = [index \in 0 .. (kInputDistributionIndexMax - 1) |-> 0]
    /\ outputVariables = <<0>>
    /\ start = 0
    /\ end = 0
    /\ cpuTimeUsedInSeconds = 0
    /\ benchmarkOutput = 0
    /\ monteCarloOutputSamples = kNullSamples
    /\ monteCarloOutputMeanAndVariance = [mean |-> 0, variance |-> 0]
    /\ i = 0
    /\ uninit = {"sigmaCMpa"}
    /\ events = <<>>

\* sigmaCMpa = computeBrownHamModelOutput(gamma, phi, Rs, G, b, M), as at
\* src/src/main.c:187-193.
KernelCall ==
    /\ pc = "kernel:call"
    /\ LET sigma == computeBrownHamModelOutput(inputs.gamma, inputs.phi, inputs.Rs,
                                               inputs.G, inputs.b, inputs.M)
       IN  /\ sigmaCMpa' = sigma
           /\ events' = Append(events,
                  Event("computeBrownHamModelOutput", "sigmaCMpa", <<sigma>>))
    /\ uninit' = uninit \ {"sigmaCMpa"}
    /\ i' = i + 1
    /\ pc' = IF i = 0 THEN "kernel:call" ELSE "kernel:done"
    /\ UNCHANGED <<exitStatus, rng, arguments, optionArgs, optionIndex, inputs,
                   inputDistributions, outputVariables, start, end,
                   cpuTimeUsedInSeconds, benchmarkOutput, monteCarloOutputSamples,
                   monteCarloOutputMeanAndVariance>>

NextKernel == KernelCall

SpecKernel == InitKernel /\ [][NextKernel]_vars

StatisticsCalls == EventsWith("calculateMeanAndVarianceOfDoubleSamples")

\* Nothing has been reported before the loop was over, and the statistics
\* were computed once, in Monte Carlo mode, after the last sample was stored.
PhasesInOrder ==
    LET statistics  == StatisticsCalls
        evaluations == Evaluations
        stores      == Stores
    IN  /\ Cardinality(statistics) =
              (IF LoopCompleted /\ arguments.common.isMonteCarloMode THEN 1 ELSE 0)
        /\ \A k \in statistics :
             /\ Cardinality({e \in stores : e < k}) = Iterations
             /\ \A e \in evaluations \cup stores : e < k
        /\ statistics = {} =>
             monteCarloOutputMeanAndVariance = [mean |-> 0, variance |-> 0]
        /\ \A k \in DOMAIN events :
             (IsResultLine(events[k]) \/ IsFileWrite(events[k])) =>
                /\ LoopCompleted
                /\ Cardinality(evaluations) = Iterations
                /\ \A e \in evaluations \cup statistics : e < k
        /\ pc = "loop" => i <= Iterations
        /\ (pc = "done" /\ evaluations # {}) => LoopCompleted

\* No step changes the statistics once they have been computed.
StatisticsNeverMutated ==
    StatisticsCalls # {} =>
        monteCarloOutputMeanAndVariance' = monteCarloOutputMeanAndVariance

(***************************************************************************)
(* C16.  A run goes through init, loop, finalize and terminal in that      *)
(* order: the statistics are computed once, only in Monte Carlo mode and   *)
(* after the last iteration has stored its output, and are not changed     *)
(* afterwards; nothing is reported or written before the loop is over; and *)
(* every run whose arguments were accepted terminates.                     *)
(***************************************************************************)
C16_PhasesInOrderAndTermination ==
    /\ []PhasesInOrder
    /\ [][StatisticsNeverMutated]_vars
    /\ (ArgumentsAccepted ~> pc = "done")

\* A Monte Carlo run has computed its statistics, reported and ended.
C16_Witness ==
    /\ pc = "done"
    /\ exitStatus = "EXIT_SUCCESS"
    /\ arguments.common.isMonteCarloMode
    /\ ~arguments.common.isBenchmarkingMode
    /\ Cardinality(StatisticsCalls) = 1
    /\ ResultLines # {}
    /\ DataOutWrites # {}

(***************************************************************************)
(* C17.  In benchmarking mode the first field of the benchmark line is a   *)
(* value assigned during this run: the mean of the statistics in Monte     *)
(* Carlo mode, else the output of the last kernel evaluation.              *)
(* benchmarkOutput is never printed unassigned, and the statistics are     *)
(* computed only in Monte Carlo mode.                                      *)
(***************************************************************************)
C17_BenchmarkOutputAssignedThisRun ==
    /\ StatisticsCalls # {} => arguments.common.isMonteCarloMode
    /\ (pc = "report" /\ arguments.common.isBenchmarkingMode) =>
          /\ "benchmarkOutput" \notin uninit
          /\ benchmarkOutput =
                (IF arguments.common.isMonteCarloMode
                 THEN monteCarloOutputMeanAndVariance.mean
                 ELSE sigmaCMpa)
    /\ \A k \in BenchmarkLines :
          /\ arguments.common.isBenchmarkingMode
          /\ "benchmarkOutput" \notin uninit
          /\ IF arguments.common.isMonteCarloMode
             THEN /\ \E c \in StatisticsCalls : c < k
                  /\ events[k].vals[1] = monteCarloOutputMeanAndVariance.mean
             ELSE /\ StatisticsCalls = {}
                  /\ \E e \in Evaluations :
                        /\ e < k
                        /\ \A later \in Evaluations : later <= e
                        /\ events[k].vals[1] = events[e].vals[1]

\* A single-shot benchmarking run has printed its benchmark line.
C17_Witness ==
    /\ pc = "done"
    /\ arguments.common.isBenchmarkingMode
    /\ ~arguments.common.isMonteCarloMode
    /\ BenchmarkLines # {}
    /\ StatisticsCalls = {}
    /\ \A k \in BenchmarkLines : events[k].vals[1] = sigmaCMpa

\* The names of the six inputs of the kernel.
InputNames == {inputVariableNames[k] : k \in DOMAIN inputVariableNames}

\* The index of inputDistributions that main's inputVariableNames gives to
\* the column called `name`.
IndexOfName ==
    [name \in InputNames |->
        CHOOSE index \in 0 .. (kInputDistributionIndexMax - 1) :
            inputVariableNames[index + 1] = name]

IndexNamed(name) == IndexOfName[name]

\* The value the one source in use holds for the input called `name`.
SourceValue(name) ==
    IF arguments.common.isInputFromFileEnabled
    THEN inputDistributions[IndexNamed(name)]
    ELSE arguments[name]

(***************************************************************************)
(* C18.  loadInputs takes all six inputs from one source: with file input  *)
(* each of b, G, gamma, M, phi, Rs is the element of inputDistributions    *)
(* whose name in inputVariableNames is that parameter (b=0, G=1, gamma=2,  *)
(* M=3, phi=4, Rs=5); otherwise each is the same-named field of the        *)
(* arguments.  The two sources are never mixed and no parameter receives   *)
(* another parameter's value.                                              *)
(***************************************************************************)
C18_InputsFromOneSourceByName ==
    /\ IndexOfName = [b |-> 0, G |-> 1, gamma |-> 2, M |-> 3, phi |-> 4, Rs |-> 5]
    /\ "inputs" \notin uninit =>
          /\ DOMAIN inputs = InputNames
          /\ \A name \in InputNames : inputs[name] = SourceValue(name)
    /\ \A k \in VerboseListing :
          events[k].vals[1] = SourceValue(events[k].what)

\* Inputs were loaded from a file whose every value differs from the
\* command line's value of the same parameter and from the file's value of
\* every other parameter.
C18_Witness ==
    /\ arguments.common.isInputFromFileEnabled
    /\ "inputs" \notin uninit
    /\ Evaluations # {}
    /\ \A name \in InputNames :
          /\ inputs[name] = InputFileColumns[name]
          /\ inputs[name] # arguments[name]
          /\ \A other \in InputNames \ {name} :
                inputs[name] # InputFileColumns[other]

\* The options getCommandLineArguments has examined so far are the first
\* `n` of gamma, phi, Rs, G, b, M.
ExaminedFirst(n) == DOMAIN optionArgs = {ParameterOptions[k] : k \in 1 .. n}

\* The argument recorded for `option` makes its block return an error.
IsRejected(option) ==
    /\ optionArgs[option].given
    /\ \/ arguments.common.isMonteCarloMode /\ optionArgs[option].hasUx
       \/ ~optionArgs[option].isNumber

\* The error message the block of `option` prints for the argument recorded.
RejectionMessage(option) ==
    IF arguments.common.isMonteCarloMode /\ optionArgs[option].hasUx
    THEN "Error: Native Monte Carlo is not compatible with Ux strings from command line."
    ELSE "Error: The " \o option \o " must be a real number."

\* The messages of the parameter blocks.
ParameterErrors ==
    {k \in ConfigurationErrors :
        \E option \in DOMAIN optionArgs : events[k].what = RejectionMessage(option)}

\* The default of `option`: the constant for b, else the value the one draw
\* of its distribution returned.
DefaultOf(option) ==
    IF option = "b"
    THEN RoundToDouble(kDemoSpecificConstantB, 1)
    ELSE events[CHOOSE k \in DrawsOf(option) : TRUE].vals[1]

\* The value the argument of a supplied `option` parses to.
ParsedValueOf(option) == RoundToDouble(SuppliedValue(option), 1)

\* Every examined option but the rejected one holds its parsed value if it
\* was supplied, and every other parameter holds its default.
FieldsFollowOptions ==
    \A k \in DOMAIN ParameterOptions :
        LET option == ParameterOptions[k]
        IN  /\ Cardinality(DrawsOf(option)) = (IF option = "b" THEN 0 ELSE 1)
            /\ arguments[option] =
                  (IF /\ option \in DOMAIN optionArgs
                      /\ optionArgs[option].given
                      /\ ~IsRejected(option)
                   THEN ParsedValueOf(option)
                   ELSE DefaultOf(option))

====
